---- MODULE Spec2Model ----
(***************************************************************************)
(* A model of sval's debug-gated validation guard                          *)
(* (src/src/collect/stack.rs) and of its serde bridge                      *)
(* (src/sval/src/serde/to_serialize.rs).                                   *)
(*                                                                         *)
(* Four specifications share the variables:                                *)
(*   SpecGuard   the guard alone, called by an arbitrary caller;           *)
(*   SpecBridge  the bridge alone, called by an arbitrary caller;          *)
(*   Spec        ToSerialize::serialize: the driver feeds each event to    *)
(*               the guard and then to the bridge and stops at the first   *)
(*               error;                                                    *)
(*   SpecReentrant  and_then step by step, with callbacks that may enter   *)
(*               and_then on the same guard.                               *)
(***************************************************************************)
EXTENDS Integers, Sequences, FiniteSets, TLC

VARIABLES
    debug,      \* cfg(debug_assertions): the validating configuration
    poisoned,   \* DebugStack.poisoned
    inner,      \* DebugStack.inner.stack: [frames, vpos]
    gop,        \* the stack operation of the last and_then callback
    gres,       \* the result of the last and_then call
    gran,       \* whether the last and_then call ran its callback
    gfail,      \* whether the last callback's own step failed (the caller's input)
    later,      \* and_then calls made after the first callback failure (saturating)
    ok,         \* Stream.ok: {} is None, {v} is Some(v)
    pos,        \* Stream.pos
    current,    \* Stream.current
    calls,      \* the calls the foreign serializer and its builders received
    bop,        \* the last bridge operation
    bres,       \* the result of the last bridge operation
    flat,       \* the events so far, while they are a flat container stream
    wf,         \* the driver's events so far are a well-formed stream: its context stack
    phase,      \* serialize: "streaming" | "returned"
    ret,        \* what serialize returned
    active,     \* the and_then calls whose callback is running, outermost first
    allok       \* whether every and_then call so far returned Ok

gvars == <<debug, poisoned, inner, gop, gres, gran, gfail, later>>
bvars == <<ok, pos, current, calls, bop, bres, flat>>
dvars == <<wf, phase, ret>>
rvars == <<active, allok>>
vars == <<debug, poisoned, inner, gop, gres, gran, gfail, later, ok, pos, current, calls, bop, bres, flat, wf, phase, ret, active, allok>>

----------------------------------------------------------------------------
(* Bounds *)

\* deepest nesting of open containers the callers produce
MaxDepth == 2
\* and_then calls counted after the first callback failure
MaxLater == 2
\* calls the foreign serializer receives in one pass
MaxCalls == 4
\* primitive values are 1..MaxVal
MaxVal == 2
\* length hints are None or Some(0..MaxLenHint)
MaxLenHint == 0
\* and_then calls whose callbacks run at the same time
MaxNest == 2

Vals == 1..MaxVal
None == "None"
\* Option<usize>: {} is None, {n} is Some(n)
Lens == {{}} \cup {{n} : n \in 0..MaxLenHint}

----------------------------------------------------------------------------
(* Results and errors *)

Ok == "ok"
ErrPoisoned == "attempt to use a poisoned stream"
ErrCallback == "callback error"
ErrInvalidSerializer == "attempt to use an invalid serializer"
ErrInvalidValue == "invalid serializer value"

\* the structural errors of the validation stack
ErrMapKey == "map key without open map awaiting a key"
ErrMapValue == "map value without key"
ErrMapEnd == "map end without balanced open map"
ErrSeqElem == "seq elem without open seq"
ErrSeqEnd == "seq end without open seq"
ErrPrimitive == "primitive without position"
ErrEnd == "end with open containers"
ErrBegin == "begin inside a container"
StructuralErrors == {ErrMapKey, ErrMapValue, ErrMapEnd, ErrSeqElem, ErrSeqEnd, ErrPrimitive, ErrEnd, ErrBegin}

StackOps == {"begin", "primitive", "map_begin", "map_key", "map_value", "map_end", "seq_begin", "seq_elem", "seq_end", "end"}

----------------------------------------------------------------------------
(* The validation stack (stream::stack::Stack), whose source is not part   *)
(* of src/: modelled from section 4.1 of the specification.                *)

\* Stack::default(): no open frame, no position established
Stack_default == [frames |-> <<>>, vpos |-> None]

Top(s) == s.frames[Len(s.frames)]
Pop(s) == SubSeq(s.frames, 1, Len(s.frames) - 1)
SetTop(s, f) == [i \in 1..Len(s.frames) |-> IF i = Len(s.frames) THEN f ELSE s.frames[i]]
TopIs(s, tag, expect) == Len(s.frames) > 0 /\ Top(s).tag = tag /\ Top(s).expect \in expect

\* begin(): opens the stream; legal while no container is open
Stack_begin(s) == IF s.frames = <<>> THEN [res |-> Ok, s |-> s] ELSE [res |-> ErrBegin, s |-> s]

\* primitive(): legal at root or once a position is established; frames untouched
Stack_primitive(s) == IF s.frames = <<>> \/ s.vpos # None THEN [res |-> Ok, s |-> [s EXCEPT !.vpos = None]] ELSE [res |-> ErrPrimitive, s |-> s]

\* begin_map(): pushes a Map frame awaiting a key; legal in any position
Stack_map_begin(s) == [res |-> Ok, s |-> [frames |-> Append(s.frames, [tag |-> "Map", expect |-> "key"]), vpos |-> None]]

\* map_key(): top frame is a Map awaiting a key; it then awaits a value
Stack_map_key(s) == IF TopIs(s, "Map", {"key"}) THEN [res |-> Ok, s |-> [frames |-> SetTop(s, [tag |-> "Map", expect |-> "value"]), vpos |-> "Key"]] ELSE [res |-> ErrMapKey, s |-> s]

\* map_value(): top frame is a Map that just received a key; it then awaits a key
Stack_map_value(s) == IF TopIs(s, "Map", {"value"}) THEN [res |-> Ok, s |-> [frames |-> SetTop(s, [tag |-> "Map", expect |-> "key"]), vpos |-> "Value"]] ELSE [res |-> ErrMapValue, s |-> s]

\* map_end(): top frame is a balanced Map (not mid-key); pops it
Stack_map_end(s) == IF TopIs(s, "Map", {"key"}) THEN [res |-> Ok, s |-> [frames |-> Pop(s), vpos |-> None]] ELSE [res |-> ErrMapEnd, s |-> s]

\* begin_seq(): pushes a Seq frame on which no call happened yet
Stack_seq_begin(s) == [res |-> Ok, s |-> [frames |-> Append(s.frames, [tag |-> "Seq", expect |-> "empty"]), vpos |-> None]]

\* seq_elem(): top frame is a Seq
Stack_seq_elem(s) == IF TopIs(s, "Seq", {"empty", "elem"}) THEN [res |-> Ok, s |-> [frames |-> SetTop(s, [tag |-> "Seq", expect |-> "elem"]), vpos |-> "Elem"]] ELSE [res |-> ErrSeqElem, s |-> s]

\* seq_end(): top frame is any Seq; pops it
Stack_seq_end(s) == IF TopIs(s, "Seq", {"empty", "elem"}) THEN [res |-> Ok, s |-> [frames |-> Pop(s), vpos |-> None]] ELSE [res |-> ErrSeqEnd, s |-> s]

\* end(): legal only once every frame is closed
Stack_end(s) == IF s.frames = <<>> THEN [res |-> Ok, s |-> s] ELSE [res |-> ErrEnd, s |-> s]

Stack_call(op, s) ==
    CASE op = "begin" -> Stack_begin(s)
      [] op = "primitive" -> Stack_primitive(s)
      [] op = "map_begin" -> Stack_map_begin(s)
      [] op = "map_key" -> Stack_map_key(s)
      [] op = "map_value" -> Stack_map_value(s)
      [] op = "map_end" -> Stack_map_end(s)
      [] op = "seq_begin" -> Stack_seq_begin(s)
      [] op = "seq_elem" -> Stack_seq_elem(s)
      [] op = "seq_end" -> Stack_seq_end(s)
      [] op = "end" -> Stack_end(s)

----------------------------------------------------------------------------
(* The debug-gated guard: src/src/collect/stack.rs *)

\* a mutant of DebugRefMut_call: the stack's error is dropped instead of returned with `?`
DebugRefMut_call_swallow(dbg, op, s) == IF dbg THEN [res |-> Ok, s |-> Stack_call(op, s).s] ELSE [res |-> Ok, s |-> s]

\* a mutant of DebugRefMut_call: primitive forwards to the stack's seq_begin
DebugRefMut_call_pasted(dbg, op, s) == IF dbg THEN Stack_call(IF op = "primitive" THEN "seq_begin" ELSE op, s) ELSE [res |-> Ok, s |-> s]

\* impl DebugRefMut<DebugStackInner>: begin .. end. With debug_assertions the
\* call is forwarded to the stack and its error returned (`?`); without, the
\* body is Ok(()) alone.
DebugRefMut_call(dbg, op, s) == IF dbg THEN Stack_call(op, s) ELSE [res |-> Ok, s |-> s]

\* The callback handed to and_then: one stack operation through the handle,
\* `?` on its result, and then the callback's own result (f.fail: the caller's
\* own step failed).
Callback(dbg, f, s) ==
    LET r == DebugRefMut_call(dbg, f.op, s)
    IN  IF r.res # Ok THEN r
        ELSE IF f.fail THEN [res |-> ErrCallback, s |-> r.s]
        ELSE r

\* a mutant of and_then: poisoned is cleared whatever the callback returned
and_then_clears(dbg, p, s, f) ==
    IF dbg
    THEN IF p THEN [res |-> ErrPoisoned, poisoned |-> p, s |-> s, ran |-> FALSE]
         ELSE LET r == Callback(dbg, f, s)
              IN  [res |-> r.res, poisoned |-> FALSE, s |-> r.s, ran |-> TRUE]
    ELSE LET r == Callback(dbg, f, Stack_default)
         IN  [res |-> r.res, poisoned |-> p, s |-> s, ran |-> TRUE]

\* a mutant of and_then: the poisoned check comes after the callback
and_then_late_check(dbg, p, s, f) ==
    IF dbg
    THEN LET r == Callback(dbg, f, s)
         IN  IF p THEN [res |-> ErrPoisoned, poisoned |-> TRUE, s |-> r.s, ran |-> TRUE]
             ELSE [res |-> r.res, poisoned |-> (r.res # Ok), s |-> r.s, ran |-> TRUE]
    ELSE LET r == Callback(dbg, f, Stack_default)
         IN  [res |-> r.res, poisoned |-> p, s |-> s, ran |-> TRUE]

\* a mutant of and_then: the release build keeps the poisoning logic
and_then_release_poisons(dbg, p, s, f) ==
    IF p THEN [res |-> ErrPoisoned, poisoned |-> p, s |-> s, ran |-> FALSE]
    ELSE LET r == Callback(dbg, f, IF dbg THEN s ELSE Stack_default)
         IN  [res |-> r.res, poisoned |-> (r.res # Ok), s |-> IF dbg THEN r.s ELSE s, ran |-> TRUE]

\* DebugRefMut<DebugStack>::and_then. p and s are the guard's poisoned flag and
\* stack; the result carries their values after the call, what the call
\* returned and whether the callback ran.
and_then(dbg, p, s, f) ==
    IF dbg
    THEN IF p THEN [res |-> ErrPoisoned, poisoned |-> p, s |-> s, ran |-> FALSE]
         ELSE LET r == Callback(dbg, f, s)
              IN  IF r.res # Ok
                  THEN [res |-> r.res, poisoned |-> TRUE, s |-> r.s, ran |-> TRUE]
                  ELSE [res |-> Ok, poisoned |-> FALSE, s |-> r.s, ran |-> TRUE]
    ELSE LET r == Callback(dbg, f, Stack_default)
         IN  [res |-> r.res, poisoned |-> p, s |-> s, ran |-> TRUE]

\* and_then up to the call of f: the poisoned check and, in the validating
\* configuration, poisoned = true
and_then_enter(dbg, p) ==
    IF dbg /\ p THEN [res |-> ErrPoisoned, poisoned |-> p, ran |-> FALSE]
    ELSE [res |-> "pending", poisoned |-> IF dbg THEN TRUE ELSE p, ran |-> TRUE]

\* and_then from the return of f: `?` on its result, then poisoned = false
and_then_exit(dbg, p, res) == [res |-> res, poisoned |-> IF dbg /\ res = Ok THEN FALSE ELSE p]

Min(a, b) == IF a < b THEN a ELSE b

\* the stack operation pushes a frame
Pushes(op) == op \in {"map_begin", "seq_begin"}

GuardInit ==
    /\ debug \in BOOLEAN
    /\ poisoned = FALSE
    /\ inner = Stack_default
    /\ gop = "none"
    /\ gres = Ok
    /\ gran = FALSE
    /\ gfail = FALSE
    /\ later = 0

----------------------------------------------------------------------------
(* The foreign serializer (serde's Serializer, SerializeSeq, SerializeMap) *)
(* is outside the repository: it is a recorder. Every call it receives is  *)
(* appended to the log with the result the environment chose for it, and   *)
(* the output of a call is named by the call's place in the log.           *)

ErrMapSerializer == "error maping serializer"
ErrKey == "error map serializing key"
ErrValue == "error serializing map value"
ErrElem == "error serializing sequence element"
ErrRoot == "error serializing 128bit signed integer"
ErrSeqComplete == "error completing sequence"
ErrMapComplete == "error completing map"
ForeignErrors == {ErrMapSerializer, ErrKey, ErrValue, ErrElem, ErrRoot, ErrSeqComplete, ErrMapComplete}

Foreign(st, call, arg, fok) == [st EXCEPT !.calls = Append(@, [call |-> call, arg |-> arg, ok |-> fok])]
Output(st) == Len(st.calls)

----------------------------------------------------------------------------
(* The builder bridge: src/sval/src/serde/to_serialize.rs *)

\* Stream::begin
Stream_begin == [ok |-> {}, pos |-> "Root", current |-> "Serializer", calls |-> <<>>]

\* Current::take_serializer (the value is moved in: an error drops it)
Current_take_serializer(c) == IF c = "Serializer" THEN Ok ELSE ErrInvalidValue

\* Current::expect_serialize_seq
Current_expect_serialize_seq(c) == IF c = "SerializeSeq" THEN Ok ELSE ErrInvalidValue

\* a mutant of Current_take_serialize_seq: the map builder is accepted as well
Current_take_serialize_seq_any(c) == IF c \in {"SerializeSeq", "SerializeMap"} THEN Ok ELSE ErrInvalidValue

\* Current::take_serialize_seq
Current_take_serialize_seq(c) == IF c = "SerializeSeq" THEN Ok ELSE ErrInvalidValue

\* Current::expect_serialize_map
Current_expect_serialize_map(c) == IF c = "SerializeMap" THEN Ok ELSE ErrInvalidValue

\* Current::take_serialize_map
Current_take_serialize_map(c) == IF c = "SerializeMap" THEN Ok ELSE ErrInvalidValue

\* Stream::take: Option::take empties the slot
Stream_take(st) == IF st.current = None THEN [res |-> ErrInvalidSerializer, c |-> None, st |-> st] ELSE [res |-> Ok, c |-> st.current, st |-> [st EXCEPT !.current = None]]

\* Stream::expect: the slot is borrowed, not emptied
Stream_expect(st) == IF st.current = None THEN [res |-> ErrInvalidSerializer, c |-> None, st |-> st] ELSE [res |-> Ok, c |-> st.current, st |-> st]

\* a mutant of Stream_map_serializer: the start call is made on whatever builder is current
Stream_map_serializer_any(st, call, next, len, fok) ==
    LET t == Stream_take(st)
    IN  IF t.res # Ok THEN [res |-> t.res, st |-> t.st]
        ELSE IF fok THEN [res |-> Ok, st |-> [Foreign(t.st, call, len, fok) EXCEPT !.current = next]]
        ELSE [res |-> ErrMapSerializer, st |-> Foreign(t.st, call, len, fok)]

\* a mutant of Stream_map_serializer: the serializer is put back when the start call fails
Stream_map_serializer_restores(st, call, next, len, fok) ==
    LET t == Stream_take(st)
    IN  IF t.res # Ok THEN [res |-> t.res, st |-> t.st]
        ELSE IF Current_take_serializer(t.c) # Ok THEN [res |-> ErrInvalidValue, st |-> t.st]
        ELSE IF fok THEN [res |-> Ok, st |-> [Foreign(t.st, call, len, fok) EXCEPT !.current = next]]
        ELSE [res |-> ErrMapSerializer, st |-> Foreign(st, call, len, fok)]

\* a mutant of Stream_map_serializer: a failed foreign start call is made once more
Stream_map_serializer_retry(st, call, next, len, fok) ==
    LET t == Stream_take(st)
    IN  IF t.res # Ok THEN [res |-> t.res, st |-> t.st]
        ELSE IF Current_take_serializer(t.c) # Ok THEN [res |-> ErrInvalidValue, st |-> t.st]
        ELSE IF fok THEN [res |-> Ok, st |-> [Foreign(t.st, call, len, fok) EXCEPT !.current = next]]
        ELSE [res |-> ErrMapSerializer, st |-> Foreign(Foreign(t.st, call, len, fok), call, len, fok)]

\* Stream::map_serializer, with the closure of seq_begin or map_begin: the
\* foreign start call, whose builder becomes the current one
Stream_map_serializer(st, call, next, len, fok) ==
    LET t == Stream_take(st)
    IN  IF t.res # Ok THEN [res |-> t.res, st |-> t.st]
        ELSE IF Current_take_serializer(t.c) # Ok THEN [res |-> ErrInvalidValue, st |-> t.st]
        ELSE IF fok THEN [res |-> Ok, st |-> [Foreign(t.st, call, len, fok) EXCEPT !.current = next]]
        ELSE [res |-> ErrMapSerializer, st |-> Foreign(t.st, call, len, fok)]

\* a mutant of Forward: the builder is taken out of the slot, not borrowed
Forward_takes(st, want, call, e, v, fok) ==
    LET x == Stream_take(st)
    IN  IF x.res # Ok THEN [res |-> x.res, st |-> x.st]
        ELSE IF x.c # want THEN [res |-> ErrInvalidValue, st |-> x.st]
        ELSE [res |-> IF fok THEN Ok ELSE e, st |-> Foreign(x.st, call, {v}, fok)]

\* the arm of Stream::primitive for Key, Value and Elem: the builder is
\* borrowed from the slot and receives one call
Forward(st, want, call, e, v, fok) ==
    LET x == Stream_expect(st)
    IN  IF x.res # Ok THEN [res |-> x.res, st |-> st]
        ELSE IF x.c # want THEN [res |-> ErrInvalidValue, st |-> st]
        ELSE [res |-> IF fok THEN Ok ELSE e, st |-> Foreign(st, call, {v}, fok)]

\* a mutant of Stream_primitive: pos is read, not taken
Stream_primitive_keeps_pos(st, v, fok) ==
    LET p == st.pos
        s == st
    IN  CASE p = "Key" -> Forward(s, "SerializeMap", "serialize_key", ErrKey, v, fok)
          [] p = "Value" -> Forward(s, "SerializeMap", "serialize_value", ErrValue, v, fok)
          [] p = "Elem" -> Forward(s, "SerializeSeq", "serialize_element", ErrElem, v, fok)
          [] p = "Root" ->
                LET t == Stream_take(s)
                IN  IF t.res # Ok THEN [res |-> t.res, st |-> t.st]
                    ELSE IF Current_take_serializer(t.c) # Ok THEN [res |-> ErrInvalidValue, st |-> t.st]
                    ELSE [res |-> IF fok THEN Ok ELSE ErrRoot, st |-> Foreign(t.st, "serialize", {v}, fok)]
          [] p = None -> [res |-> ErrInvalidSerializer, st |-> s]

\* a mutant of Stream_primitive: the element arm forwards to serialize_key
Stream_primitive_wrong_call(st, v, fok) ==
    LET p == st.pos
        s == [st EXCEPT !.pos = None]
    IN  CASE p = "Key" -> Forward(s, "SerializeMap", "serialize_value", ErrKey, v, fok)
          [] p = "Value" -> Forward(s, "SerializeMap", "serialize_value", ErrValue, v, fok)
          [] p = "Elem" -> Forward(s, "SerializeSeq", "serialize_key", ErrElem, v, fok)
          [] p = "Root" ->
                LET t == Stream_take(s)
                IN  IF t.res # Ok THEN [res |-> t.res, st |-> t.st]
                    ELSE IF Current_take_serializer(t.c) # Ok THEN [res |-> ErrInvalidValue, st |-> t.st]
                    ELSE [res |-> IF fok THEN Ok ELSE ErrRoot, st |-> Foreign(t.st, "serialize", {v}, fok)]
          [] p = None -> [res |-> ErrInvalidSerializer, st |-> s]

\* Stream::primitive: pos is taken, and the value goes where it pointed. At
\* the root the serializer is moved out of the slot and its output dropped.
Stream_primitive(st, v, fok) ==
    LET p == st.pos
        s == [st EXCEPT !.pos = None]
    IN  CASE p = "Key" -> Forward(s, "SerializeMap", "serialize_key", ErrKey, v, fok)
          [] p = "Value" -> Forward(s, "SerializeMap", "serialize_value", ErrValue, v, fok)
          [] p = "Elem" -> Forward(s, "SerializeSeq", "serialize_element", ErrElem, v, fok)
          [] p = "Root" ->
                LET t == Stream_take(s)
                IN  IF t.res # Ok THEN [res |-> t.res, st |-> t.st]
                    ELSE IF Current_take_serializer(t.c) # Ok THEN [res |-> ErrInvalidValue, st |-> t.st]
                    ELSE [res |-> IF fok THEN Ok ELSE ErrRoot, st |-> Foreign(t.st, "serialize", {v}, fok)]
          [] p = None -> [res |-> ErrInvalidSerializer, st |-> s]

\* Stream::seq_begin
Stream_seq_begin(st, len, fok) == Stream_map_serializer(st, "serialize_seq", "SerializeSeq", len, fok)

\* a mutant of Stream_seq_elem: the current builder must be a sequence builder
Stream_seq_elem_checked(st) ==
    LET x == Stream_expect(st)
    IN  IF x.res # Ok THEN [res |-> x.res, st |-> st]
        ELSE IF Current_expect_serialize_seq(x.c) # Ok THEN [res |-> ErrInvalidValue, st |-> st]
        ELSE [res |-> Ok, st |-> [st EXCEPT !.pos = "Elem"]]

\* Stream::seq_elem
Stream_seq_elem(st) == [res |-> Ok, st |-> [st EXCEPT !.pos = "Elem"]]

\* a mutant of Stream_seq_end: the builder is borrowed, and stays in the slot
Stream_seq_end_borrows(st, fok) ==
    LET t == Stream_expect(st)
    IN  IF t.res # Ok THEN [res |-> t.res, st |-> t.st]
        ELSE IF Current_expect_serialize_seq(t.c) # Ok THEN [res |-> ErrInvalidValue, st |-> t.st]
        ELSE LET g == Foreign(t.st, "seq_end", {}, fok)
             IN  IF fok THEN [res |-> Ok, st |-> [g EXCEPT !.ok = {Output(g)}]]
                 ELSE [res |-> ErrSeqComplete, st |-> g]

\* Stream::seq_end
Stream_seq_end(st, fok) ==
    LET t == Stream_take(st)
    IN  IF t.res # Ok THEN [res |-> t.res, st |-> t.st]
        ELSE IF Current_take_serialize_seq(t.c) # Ok THEN [res |-> ErrInvalidValue, st |-> t.st]
        ELSE LET g == Foreign(t.st, "seq_end", {}, fok)
             IN  IF fok THEN [res |-> Ok, st |-> [g EXCEPT !.ok = {Output(g)}]]
                 ELSE [res |-> ErrSeqComplete, st |-> g]

\* Stream::map_begin
Stream_map_begin(st, len, fok) == Stream_map_serializer(st, "serialize_map", "SerializeMap", len, fok)

\* Stream::map_key
Stream_map_key(st) == [res |-> Ok, st |-> [st EXCEPT !.pos = "Key"]]

\* Stream::map_value
Stream_map_value(st) == [res |-> Ok, st |-> [st EXCEPT !.pos = "Value"]]

\* Stream::map_end
Stream_map_end(st, fok) ==
    LET t == Stream_take(st)
    IN  IF t.res # Ok THEN [res |-> t.res, st |-> t.st]
        ELSE IF Current_take_serialize_map(t.c) # Ok THEN [res |-> ErrInvalidValue, st |-> t.st]
        ELSE LET g == Foreign(t.st, "map_end", {}, fok)
             IN  IF fok THEN [res |-> Ok, st |-> [g EXCEPT !.ok = {Output(g)}]]
                 ELSE [res |-> ErrMapComplete, st |-> g]

\* the operations of the bridge, as the events the stream trait delivers
\* (i64 .. fmt all forward to Stream::primitive)
Stream_call(st, e, fok) ==
    CASE e.op = "seq_begin" -> Stream_seq_begin(st, e.arg, fok)
      [] e.op = "seq_elem" -> Stream_seq_elem(st)
      [] e.op = "seq_end" -> Stream_seq_end(st, fok)
      [] e.op = "map_begin" -> Stream_map_begin(st, e.arg, fok)
      [] e.op = "map_key" -> Stream_map_key(st)
      [] e.op = "map_value" -> Stream_map_value(st)
      [] e.op = "map_end" -> Stream_map_end(st, fok)
      [] e.op = "primitive" -> Stream_primitive(st, CHOOSE v \in e.arg : TRUE, fok)

\* a mutant of Stream_expect_ok: a missing result is defaulted instead of a panic
Stream_expect_ok_default(st) == IF st.ok = {} THEN [kind |-> "ok", v |-> {0}] ELSE [kind |-> "ok", v |-> st.ok]

\* Stream::expect_ok: Option::expect panics with "missing return value" on None
Stream_expect_ok(st) == IF st.ok = {} THEN [kind |-> "panic", v |-> {}] ELSE [kind |-> "ok", v |-> st.ok]

----------------------------------------------------------------------------
(* The events of a pass, and the streams the claims speak about *)

Event(op, arg) == [op |-> op, arg |-> arg]
BridgeOps == {"seq_begin", "seq_elem", "seq_end", "map_begin", "map_key", "map_value", "map_end", "primitive"}
\* the bridge operations that can reach a foreign call
ForeignOps == {"seq_begin", "seq_end", "map_begin", "map_end", "primitive"}

LastOp(evs) == IF evs = <<>> THEN "none" ELSE evs[Len(evs)].op
PrevOp(evs) == IF Len(evs) < 2 THEN "none" ELSE evs[Len(evs) - 1].op

\* evs is a prefix of a flat container stream and e may follow it:
\*   seq_begin (seq_elem primitive)* seq_end
\*   map_begin (map_key primitive map_value primitive)* map_end
FlatNext(evs, e) ==
    LET l == LastOp(evs)
        k == IF evs = <<>> THEN "none" ELSE evs[1].op
    IN  CASE l = "none" -> e.op \in {"seq_begin", "map_begin"}
          [] l = "seq_begin" -> e.op \in {"seq_elem", "seq_end"}
          [] l = "seq_elem" -> e.op = "primitive"
          [] l = "primitive" /\ k = "seq_begin" -> e.op \in {"seq_elem", "seq_end"}
          [] l = "map_begin" -> e.op \in {"map_key", "map_end"}
          [] l = "map_key" -> e.op = "primitive"
          [] l = "primitive" /\ k = "map_begin" /\ PrevOp(evs) = "map_key" -> e.op = "map_value"
          [] l = "map_value" -> e.op = "primitive"
          [] l = "primitive" /\ k = "map_begin" /\ PrevOp(evs) = "map_value" -> e.op \in {"map_key", "map_end"}
          [] OTHER -> FALSE

\* the foreign call that event n of a flat stream asks for
ExpectedCall(evs, n) ==
    LET e == evs[n]
        before == IF n > 1 THEN evs[n - 1].op ELSE "none"
        call == CASE e.op = "seq_begin" -> "serialize_seq"
                  [] e.op = "map_begin" -> "serialize_map"
                  [] e.op = "seq_end" -> "seq_end"
                  [] e.op = "map_end" -> "map_end"
                  [] e.op = "primitive" /\ before = "seq_elem" -> "serialize_element"
                  [] e.op = "primitive" /\ before = "map_key" -> "serialize_key"
                  [] e.op = "primitive" /\ before = "map_value" -> "serialize_value"
                  [] OTHER -> "none"
    IN  [call |-> call, arg |-> e.arg, ok |-> TRUE]

RECURSIVE ExpectedCalls(_, _)
\* the foreign calls that the first n events of a flat stream ask for, in order
ExpectedCalls(evs, n) ==
    IF n = 0 THEN <<>>
    ELSE IF evs[n].op \in ForeignOps THEN Append(ExpectedCalls(evs, n - 1), ExpectedCall(evs, n))
    ELSE ExpectedCalls(evs, n - 1)

\* The contexts of a well-formed stream: where a value is expected, and what
\* follows once the value is complete.
ValueCtx == {"start", "root", "seq_elem", "map_key", "map_value"}
After(c) ==
    CASE c \in {"start", "root"} -> "done"
      [] c = "seq_elem" -> "seq"
      [] c = "map_key" -> "map_keyed"
      [] c = "map_value" -> "map"
      [] OTHER -> c

CtxTop(ctx) == ctx[Len(ctx)]
CtxSet(ctx, c) == [i \in 1..Len(ctx) |-> IF i = Len(ctx) THEN c ELSE ctx[i]]
CtxClose(ctx) == LET p == SubSeq(ctx, 1, Len(ctx) - 1) IN CtxSet(p, After(CtxTop(p)))

\* op may follow a well-formed stream whose context stack is ctx
WfOk(ctx, op) ==
    LET c == CtxTop(ctx)
    IN  CASE op = "begin" -> c = "start"
          [] op \in {"primitive", "seq_begin", "map_begin"} -> c \in ValueCtx
          [] op \in {"seq_elem", "seq_end"} -> c = "seq"
          [] op \in {"map_key", "map_end"} -> c = "map"
          [] op = "map_value" -> c = "map_keyed"
          [] op = "end" -> c = "done"

\* the context stack after op
WfNext(ctx, op) ==
    LET c == CtxTop(ctx)
    IN  CASE op = "begin" -> CtxSet(ctx, "root")
          [] op = "primitive" -> CtxSet(ctx, After(c))
          [] op = "seq_begin" -> Append(ctx, "seq")
          [] op = "map_begin" -> Append(ctx, "map")
          [] op = "seq_elem" -> CtxSet(ctx, "seq_elem")
          [] op = "map_key" -> CtxSet(ctx, "map_key")
          [] op = "map_value" -> CtxSet(ctx, "map_value")
          [] op \in {"seq_end", "map_end"} -> CtxClose(ctx)
          [] op = "end" -> CtxSet(ctx, "ended")

----------------------------------------------------------------------------
(* State and actions *)

Stream == [ok |-> ok, pos |-> pos, current |-> current, calls |-> calls]

BridgeInit ==
    /\ ok = Stream_begin.ok
    /\ pos = Stream_begin.pos
    /\ current = Stream_begin.current
    /\ calls = Stream_begin.calls
    /\ bop = "none"
    /\ bres = Ok
    /\ flat = [on |-> TRUE, evs |-> <<>>]

DriverInit ==
    /\ wf = [on |-> TRUE, ctx |-> <<"start">>]
    /\ phase = "streaming"
    /\ ret = [kind |-> "pending", v |-> {}]

ReentrantInit ==
    /\ active = <<>>
    /\ allok = TRUE

Init == GuardInit /\ BridgeInit /\ DriverInit /\ ReentrantInit

\* the guard's variables after and_then with a callback performing op
GuardApply(op, fail) ==
    LET r == and_then(debug, poisoned, inner, [op |-> op, fail |-> fail])
    IN  /\ poisoned' = r.poisoned
        /\ inner' = r.s
        /\ gop' = op
        /\ gres' = r.res
        /\ gran' = r.ran
        /\ gfail' = fail
        /\ later' = IF later > 0 \/ (gres # Ok /\ gran) THEN Min(later + 1, MaxLater) ELSE 0
        /\ UNCHANGED debug

\* the bridge's variables after the operation of event e, with the foreign
\* call (if the operation reaches one) succeeding or failing as fok says
BridgeApply(e, fok) ==
    LET r == Stream_call(Stream, e, fok)
    IN  /\ ok' = r.st.ok
        /\ pos' = r.st.pos
        /\ current' = r.st.current
        /\ calls' = r.st.calls
        /\ bop' = e.op
        /\ bres' = r.res
        /\ flat' = IF flat.on /\ FlatNext(flat.evs, e) /\ fok THEN [on |-> TRUE, evs |-> Append(flat.evs, e)] ELSE [on |-> FALSE, evs |-> <<>>]

\* the guard, called by any caller
GuardCall(op, fail) ==
    /\ Pushes(op) => Len(inner.frames) < MaxDepth
    /\ GuardApply(op, fail)
    /\ UNCHANGED <<bvars, dvars, rvars>>

G_begin == \E fail \in BOOLEAN : GuardCall("begin", fail)
G_primitive == \E fail \in BOOLEAN : GuardCall("primitive", fail)
G_map_begin == \E fail \in BOOLEAN : GuardCall("map_begin", fail)
G_map_key == \E fail \in BOOLEAN : GuardCall("map_key", fail)
G_map_value == \E fail \in BOOLEAN : GuardCall("map_value", fail)
G_map_end == \E fail \in BOOLEAN : GuardCall("map_end", fail)
G_seq_begin == \E fail \in BOOLEAN : GuardCall("seq_begin", fail)
G_seq_elem == \E fail \in BOOLEAN : GuardCall("seq_elem", fail)
G_seq_end == \E fail \in BOOLEAN : GuardCall("seq_end", fail)
G_end == \E fail \in BOOLEAN : GuardCall("end", fail)

GuardNext == G_begin \/ G_primitive \/ G_map_begin \/ G_map_key \/ G_map_value \/ G_map_end \/ G_seq_begin \/ G_seq_elem \/ G_seq_end \/ G_end

SpecGuard == Init /\ [][GuardNext]_vars

\* the bridge, called by any caller
BridgeCall(e, fok) ==
    /\ e.op \in ForeignOps => Len(calls) < MaxCalls
    /\ BridgeApply(e, fok)
    /\ UNCHANGED <<gvars, dvars, rvars>>

B_seq_begin == \E len \in Lens, fok \in BOOLEAN : BridgeCall(Event("seq_begin", len), fok)
B_seq_elem == BridgeCall(Event("seq_elem", {}), TRUE)
B_seq_end == \E fok \in BOOLEAN : BridgeCall(Event("seq_end", {}), fok)
B_map_begin == \E len \in Lens, fok \in BOOLEAN : BridgeCall(Event("map_begin", len), fok)
B_map_key == BridgeCall(Event("map_key", {}), TRUE)
B_map_value == BridgeCall(Event("map_value", {}), TRUE)
B_map_end == \E fok \in BOOLEAN : BridgeCall(Event("map_end", {}), fok)
B_primitive == \E v \in Vals, fok \in BOOLEAN : BridgeCall(Event("primitive", {v}), fok)

BridgeNext == B_seq_begin \/ B_seq_elem \/ B_seq_end \/ B_map_begin \/ B_map_key \/ B_map_value \/ B_map_end \/ B_primitive

\* the bridge is the same in both configurations: the validating one is taken
InitBridge == Init /\ debug = TRUE

SpecBridge == InitBridge /\ [][BridgeNext]_vars

----------------------------------------------------------------------------
(* and_then step by step. A callback is any code: it may use its handle,   *)
(* it may enter and_then on the same guard (overlapping use), and it       *)
(* returns what it likes.                                                  *)

\* and_then is entered, by the caller or by the innermost running callback
R_enter ==
    /\ Len(active) < MaxNest
    /\ LET r == and_then_enter(debug, poisoned)
       IN  /\ poisoned' = r.poisoned
           /\ gop' = "and_then"
           /\ gres' = r.res
           /\ gran' = r.ran
           /\ active' = IF r.ran THEN Append(active, "callback") ELSE active
           /\ allok' = (allok /\ r.ran)
    /\ UNCHANGED <<debug, inner, gfail, later, bvars, dvars>>

\* the innermost running callback calls a stack operation through its handle
R_call(op) ==
    /\ active # <<>>
    /\ Pushes(op) => Len(inner.frames) < MaxDepth
    /\ inner' = DebugRefMut_call(debug, op, inner).s
    /\ gop' = op
    /\ UNCHANGED <<debug, poisoned, gres, gran, gfail, later, bvars, dvars, rvars>>

\* the innermost running callback returns res, and its and_then call returns
R_return(res) ==
    /\ active # <<>>
    /\ LET r == and_then_exit(debug, poisoned, res)
       IN  /\ poisoned' = r.poisoned
           /\ gop' = "return"
           /\ gres' = r.res
           /\ gran' = TRUE
           /\ active' = SubSeq(active, 1, Len(active) - 1)
           /\ allok' = (allok /\ r.res = Ok)
    /\ UNCHANGED <<debug, inner, gfail, later, bvars, dvars>>

R_op == \E op \in StackOps : R_call(op)
R_ok == R_return(Ok)
R_err == R_return(ErrCallback)

ReentrantNext == R_enter \/ R_op \/ R_ok \/ R_err

SpecReentrant == Init /\ [][ReentrantNext]_vars

----------------------------------------------------------------------------
(* ToSerialize::serialize. The driver (crate::stream, whose source is not  *)
(* part of src/) is modelled from sections 2 and 7 of the specification:   *)
(* each event goes to the guard and, when the guard accepts it, to the     *)
(* bridge; the first error ends the pass and is returned; `end` completes  *)
(* the stream. The bridge does not override begin and end.                 *)

\* ToSerialize::serialize, after the event stream returned: its error is
\* converted and returned, else the result is unwrapped
Serialize_return(failed, st) == IF failed THEN [kind |-> "err", v |-> {}] ELSE Stream_expect_ok(st)

\* the bridge's part of a driver step: nothing for begin and end
DriverBridge(e, fok) ==
    IF e.op \in BridgeOps THEN BridgeApply(e, fok)
    ELSE /\ bop' = e.op
         /\ bres' = Ok
         /\ UNCHANGED <<ok, pos, current, calls, flat>>

\* One event of the pass.
DriverStep(e, fok) ==
    /\ phase = "streaming"
    /\ Pushes(e.op) => Len(inner.frames) < MaxDepth
    /\ e.op \in ForeignOps => Len(calls) < MaxCalls
    /\ GuardApply(e.op, FALSE)
    /\ UNCHANGED rvars
    /\ wf' = IF wf.on /\ WfOk(wf.ctx, e.op) THEN [on |-> TRUE, ctx |-> WfNext(wf.ctx, e.op)] ELSE [on |-> FALSE, ctx |-> <<"off">>]
    /\ IF gres' # Ok
       THEN /\ bop' = e.op
            /\ bres' = "skipped"
            /\ UNCHANGED <<ok, pos, current, calls, flat>>
            /\ phase' = "returned"
            /\ ret' = Serialize_return(TRUE, Stream)
       ELSE /\ DriverBridge(e, fok)
            /\ IF bres' # Ok \/ e.op = "end"
               THEN /\ phase' = "returned"
                    /\ ret' = Serialize_return(bres' # Ok, [ok |-> ok', pos |-> pos', current |-> current', calls |-> calls'])
               ELSE UNCHANGED <<phase, ret>>

D_begin == DriverStep(Event("begin", {}), TRUE)
D_primitive == \E v \in Vals, fok \in BOOLEAN : DriverStep(Event("primitive", {v}), fok)
D_map_begin == \E len \in Lens, fok \in BOOLEAN : DriverStep(Event("map_begin", len), fok)
D_map_key == DriverStep(Event("map_key", {}), TRUE)
D_map_value == DriverStep(Event("map_value", {}), TRUE)
D_map_end == \E fok \in BOOLEAN : DriverStep(Event("map_end", {}), fok)
D_seq_begin == \E len \in Lens, fok \in BOOLEAN : DriverStep(Event("seq_begin", len), fok)
D_seq_elem == DriverStep(Event("seq_elem", {}), TRUE)
D_seq_end == \E fok \in BOOLEAN : DriverStep(Event("seq_end", {}), fok)
D_end == DriverStep(Event("end", {}), TRUE)

Next == D_begin \/ D_primitive \/ D_map_begin \/ D_map_key \/ D_map_value \/ D_map_end \/ D_seq_begin \/ D_seq_elem \/ D_seq_end \/ D_end

Spec == Init /\ [][Next]_vars

----------------------------------------------------------------------------
(* Claims *)

NoForeignFailure == \A i \in DOMAIN calls : calls[i].ok
LastCall == calls[Len(calls)]

\* C1 (SpecGuard): in the validating configuration, once and_then has
\* returned an error because its callback failed, poisoned is set and stays
\* set, and every later and_then call returns the poisoning error without
\* running its callback.
C1_PoisonedForever ==
    debug =>
        /\ (gran /\ gres # Ok) => poisoned
        /\ later > 0 => (poisoned /\ gres = ErrPoisoned /\ ~gran)

\* C1 witness: MaxLater calls were made after a callback failure, the last
\* of them rejected as poisoned
C1_Witness == debug /\ later = MaxLater /\ gres = ErrPoisoned /\ ~gran /\ poisoned

\* C2 (Spec): while the events form a well-formed stream and no foreign call
\* failed, the guard and the bridge accepted every event, and when the
\* stream has ended the bridge holds a result.
C2_WellFormedAccepted ==
    (wf.on /\ NoForeignFailure) =>
        /\ gres = Ok
        /\ bres = Ok
        /\ CtxTop(wf.ctx) = "ended" => ok # {}

\* C3 (Spec): a pass that consists of one root primitive, which the foreign
\* serializer accepted, returns the output of that serialize call.
C3_RootPrimitiveReturnsOutput ==
    (phase = "returned" /\ gres = Ok /\ bres = Ok /\ Len(calls) = 1 /\ calls[1].call = "serialize" /\ calls[1].ok) =>
        (ok = {1} /\ ret = [kind |-> "ok", v |-> {1}])

\* C4 (SpecBridge): while the events since Stream::begin form a flat
\* container stream whose foreign calls all succeeded, the last call
\* succeeded, the foreign serializer received exactly the start call, one
\* call per element (or key and value) in event order and, once the container
\* is closed, one end call, whose output is in the result slot.
C4_FlatStream ==
    (flat.on /\ flat.evs # <<>>) =>
        /\ bres = Ok
        /\ calls = ExpectedCalls(flat.evs, Len(flat.evs))
        /\ LastOp(flat.evs) \in {"seq_end", "map_end"} => (ok = {Len(calls)} /\ LastCall.call = LastOp(flat.evs))
        /\ LastOp(flat.evs) \notin {"seq_end", "map_end"} => ok = {}

\* C4 witness: a closed flat sequence of two different elements
C4_Witness ==
    /\ flat.on
    /\ Len(flat.evs) = 6
    /\ LastOp(flat.evs) = "seq_end"
    /\ flat.evs[3].arg # flat.evs[5].arg
    /\ ok = {4}

\* C5 (SpecGuard): in the validating configuration, on a guard that is not
\* poisoned, map_value with a top frame that is not a Map that just received
\* a key, end with a frame still open, seq_end with a top frame that is not a
\* Seq and map_end with a top frame that is not a balanced Map each make
\* and_then return a structural error.
C5_MalformedRejected ==
    [][(debug /\ ~poisoned) =>
        /\ (gop' = "map_value" /\ ~TopIs(inner, "Map", {"value"})) => gres' = ErrMapValue
        /\ (gop' = "end" /\ inner.frames # <<>>) => gres' = ErrEnd
        /\ (gop' = "seq_end" /\ ~TopIs(inner, "Seq", {"empty", "elem"})) => gres' = ErrSeqEnd
        /\ (gop' = "map_end" /\ ~TopIs(inner, "Map", {"key"})) => gres' = ErrMapEnd]_vars

\* C5 witness: end was rejected while a container is open
C5_Witness == debug /\ gop = "end" /\ gres = ErrEnd /\ inner.frames # <<>> /\ poisoned

\* C6 (SpecBridge): between calls the current builder slot is never empty.
C6_CurrentNeverEmpty == current \in {"Serializer", "SerializeSeq", "SerializeMap"}

\* C7 (SpecGuard): and_then on a poisoned guard returns the poisoning error,
\* does not run the callback and leaves the flag and the stack unchanged.
C7_PoisonedRejects ==
    [][(debug /\ poisoned) => (gres' = ErrPoisoned /\ ~gran' /\ poisoned' /\ inner' = inner)]_vars

\* C7 witness: a call was rejected as poisoned while frames are open
C7_Witness == debug /\ poisoned /\ gres = ErrPoisoned /\ ~gran /\ inner.frames # <<>>

\* C8 (SpecGuard): in the non-validating configuration and_then always runs
\* the callback and returns what the callback returns, and the validation
\* operation in the callback succeeds: the result is an error only when the
\* callback's own step failed.
C8_ReleaseNoOps ==
    (~debug /\ gop # "none") =>
        /\ gran
        /\ gres = IF gfail THEN ErrCallback ELSE Ok
        /\ ~poisoned
        /\ inner = Stack_default

\* C8 witness: after an earlier callback failure, a map_value without a key
\* succeeded
C8_Witness == ~debug /\ later > 0 /\ gop = "map_value" /\ gres = Ok /\ gran

\* C9 (SpecBridge): a bridge operation whose foreign call fails returns that
\* call's error, made the call once and does not set the result slot.
C9_ForeignFailure ==
    [][(calls' # calls /\ ~calls'[Len(calls')].ok) =>
        /\ bres' \in ForeignErrors
        /\ calls' = Append(calls, calls'[Len(calls')])
        /\ ok' = ok]_vars

\* C9 witness: the end call of a sequence failed and the result slot is empty
C9_Witness == calls # <<>> /\ LastCall.call = "seq_end" /\ ~LastCall.ok /\ bres = ErrSeqComplete /\ ok = {}

\* C10 (Spec): serialize returns the result slot's value when every event
\* succeeded and a result was set, the error when an event failed, and panics
\* with "missing return value" exactly when every event succeeded and no
\* result was set.
C10_SerializeReturn ==
    /\ phase = "streaming" => ret.kind = "pending"
    /\ phase = "returned" =>
        /\ (gres = Ok /\ bres = Ok /\ ok # {}) => ret = [kind |-> "ok", v |-> ok]
        /\ (gres # Ok \/ bres # Ok) => ret.kind = "err"
        /\ ret.kind = "panic" <=> (gres = Ok /\ bres = Ok /\ ok = {})

\* C10 witness: the stream ended without any call on the foreign serializer
C10_Witness == phase = "returned" /\ ret.kind = "panic" /\ calls = <<>> /\ gop = "end"

\* C12 (SpecReentrant): in the validating configuration poisoned is true
\* while an and_then callback is running, and between calls it is false
\* exactly when every and_then call so far returned success; so no second
\* callback runs while one is running.
C12_PoisonTracksCalls ==
    debug =>
        /\ active # <<>> => poisoned
        /\ active = <<>> => (~poisoned <=> allok)
        /\ Len(active) <= 1

\* C13 (SpecBridge): seq_begin and map_begin succeed only when the current
\* builder is the root serializer: the foreign start call is then made once,
\* with the given length hint, and the builder it returns becomes the current
\* one. With a sequence or map builder current they fail with a structural
\* error and make no foreign call.
C13_BeginOnlyFromRoot ==
    [][(bop' \in {"seq_begin", "map_begin"}) =>
        /\ (bres' = Ok) =>
            /\ current = "Serializer"
            /\ current' = IF bop' = "seq_begin" THEN "SerializeSeq" ELSE "SerializeMap"
            /\ flat'.on => calls'[Len(calls')].arg = flat'.evs[1].arg
        /\ (current = "Serializer") =>
            /\ Len(calls') = Len(calls) + 1
            /\ calls' = Append(calls, calls'[Len(calls')])
            /\ calls'[Len(calls')].call = IF bop' = "seq_begin" THEN "serialize_seq" ELSE "serialize_map"
            /\ calls'[Len(calls')].ok <=> bres' = Ok
        /\ (current \in {"SerializeSeq", "SerializeMap"}) => (bres' = ErrInvalidValue /\ calls' = calls)]_vars

\* C13 witness: a map_begin inside an open sequence was rejected
C13_Witness ==
    /\ bop = "map_begin"
    /\ bres = ErrInvalidValue
    /\ Len(calls) = 1
    /\ calls[1].call = "serialize_seq"
    /\ calls[1].ok

\* C14 (SpecBridge): seq_end succeeds only on a current sequence builder and
\* map_end only on a current map builder: the foreign end call is made once
\* and its output stored in the result slot. With another variant, or an
\* empty slot, the call fails with a structural error, makes no foreign call
\* and leaves the result slot alone.
C14_EndOnlyOnOwnBuilder ==
    [][(bop' \in {"seq_end", "map_end"}) =>
        LET want == IF bop' = "seq_end" THEN "SerializeSeq" ELSE "SerializeMap"
        IN  /\ (bres' = Ok) => (current = want /\ ok' = {Len(calls')})
            /\ (current = want) => calls' = Append(calls, [call |-> bop', arg |-> {}, ok |-> (bres' = Ok)])
            /\ (current # want) =>
                /\ bres' = IF current = None THEN ErrInvalidSerializer ELSE ErrInvalidValue
                /\ calls' = calls
                /\ ok' = ok]_vars

\* C14 witness: a seq_end on an open map was rejected and set no result
C14_Witness ==
    /\ bop = "seq_end"
    /\ bres = ErrInvalidValue
    /\ Len(calls) = 1
    /\ calls[1].call = "serialize_map"
    /\ calls[1].ok
    /\ ok = {}

\* C15 (SpecBridge): a primitive event with position Key, Value or Elem
\* leaves the current builder and the result slot as they are; when the
\* current builder is of the variant the position needs (map, map, sequence)
\* it receives exactly one call (serialize_key, serialize_value,
\* serialize_element) with the value, and otherwise the event fails with a
\* structural error and no foreign call is made.
C15_PrimitiveDispatch ==
    [][(bop' = "primitive" /\ pos \in {"Key", "Value", "Elem"}) =>
        LET want == IF pos = "Elem" THEN "SerializeSeq" ELSE "SerializeMap"
            call == CASE pos = "Key" -> "serialize_key"
                      [] pos = "Value" -> "serialize_value"
                      [] pos = "Elem" -> "serialize_element"
        IN  /\ current' = current
            /\ ok' = ok
            /\ (current = want) =>
                /\ Len(calls') = Len(calls) + 1
                /\ calls' = Append(calls, calls'[Len(calls')])
                /\ calls'[Len(calls')].call = call
                /\ calls'[Len(calls')].ok <=> bres' = Ok
                /\ flat'.on => calls'[Len(calls')].arg = flat'.evs[Len(flat'.evs)].arg
            /\ (current # want) =>
                /\ bres' = IF current = None THEN ErrInvalidSerializer ELSE ErrInvalidValue
                /\ calls' = calls]_vars

\* C15 witness: a map value was forwarded and the map builder is still current
C15_Witness ==
    /\ bop = "primitive"
    /\ bres = Ok
    /\ calls # <<>>
    /\ LastCall.call = "serialize_value"
    /\ current = "SerializeMap"
    /\ ok = {}

\* C16 (SpecBridge): every primitive event, successful or failed, leaves the
\* position unset, and a primitive event that finds it unset fails with
\* "attempt to use an invalid serializer" and makes no foreign call.
C16_PositionConsumed ==
    [][(bop' = "primitive") =>
        /\ pos' = None
        /\ (pos = None) => (bres' = ErrInvalidSerializer /\ calls' = calls)]_vars

\* C16 witness: a second primitive without a seq_elem before it was rejected
\* although the sequence builder is current
C16_Witness ==
    /\ bop = "primitive"
    /\ bres = ErrInvalidSerializer
    /\ current = "SerializeSeq"
    /\ calls # <<>>
    /\ LastCall.call = "serialize_element"
    /\ LastCall.ok
    /\ pos = None

\* C17 (SpecBridge): seq_elem, map_key and map_value succeed whatever the
\* current builder slot holds, set the position to Elem, Key and Value, make
\* no foreign call and leave the current builder and the result slot alone.
C17_PositionSetters ==
    [][(bop' \in {"seq_elem", "map_key", "map_value"}) =>
        /\ bres' = Ok
        /\ pos' = CASE bop' = "seq_elem" -> "Elem"
                    [] bop' = "map_key" -> "Key"
                    [] bop' = "map_value" -> "Value"
        /\ calls' = calls
        /\ current' = current
        /\ ok' = ok]_vars

\* C17 witness: seq_elem succeeded while a map builder is current
C17_Witness == bop = "seq_elem" /\ bres = Ok /\ pos = "Elem" /\ current = "SerializeMap"

\* C18 (SpecGuard): in the validating configuration a stack operation that
\* returns a structural error leaves the stack as it was; a frame is pushed
\* only by a successful map_begin or seq_begin, one at a time, popped only by
\* a successful map_end or seq_end, and primitive never changes the number
\* of frames.
C18_ErrorsLeaveStack ==
    [][debug =>
        /\ (gres' \in StructuralErrors) => inner' = inner
        /\ (Len(inner'.frames) > Len(inner.frames)) =>
            /\ gop' \in {"map_begin", "seq_begin"}
            /\ inner'.frames = Append(inner.frames, inner'.frames[Len(inner'.frames)])
            /\ gres' \notin StructuralErrors
        /\ (Len(inner'.frames) < Len(inner.frames)) =>
            /\ gop' \in {"map_end", "seq_end"}
            /\ inner'.frames = SubSeq(inner.frames, 1, Len(inner.frames) - 1)
            /\ gres' \notin StructuralErrors
        /\ (gop' = "primitive") => Len(inner'.frames) = Len(inner.frames)]_vars

\* C18 witness: a map_value without a key was rejected inside an open map
C18_Witness ==
    /\ debug
    /\ gop = "map_value"
    /\ gres = ErrMapValue
    /\ inner.frames # <<>>
    /\ Top(inner) = [tag |-> "Map", expect |-> "key"]

\* C19 (SpecBridge): whenever the result slot is set the builder slot is
\* empty; the result slot is written only by a seq_end or map_end that
\* returns success, and only while it is still unset, so it is written at
\* most once in the life of a stream.
C19_ResultWrittenOnce ==
    /\ [](ok # {} => current = None)
    /\ [][(ok' # ok \/ (calls' # calls /\ bop' \in {"seq_end", "map_end"} /\ bres' = Ok)) =>
            /\ ok = {}
            /\ ok' # {}
            /\ bop' \in {"seq_end", "map_end"}
            /\ bres' = Ok]_vars

\* C19 witness: with the result already set, a further end event was rejected
\* and the result stayed as it was
C19_Witness ==
    /\ ok # {}
    /\ current = None
    /\ bop \in {"seq_end", "map_end"}
    /\ bres = ErrInvalidSerializer

\* C20 (SpecBridge): an operation that takes the builder out of its slot
\* (seq_begin, map_begin, seq_end, map_end, primitive at the root position)
\* leaves the slot empty when it fails, on a variant mismatch as on a foreign
\* error; an empty slot stays empty, and from then on seq_begin, map_begin,
\* seq_end, map_end and primitive fail with 'attempt to use an invalid
\* serializer' and make no foreign call.
C20_EmptySlotIsFinal ==
    [][/\ (/\ \/ bop' \in {"seq_begin", "map_begin", "seq_end", "map_end"}
              \/ bop' = "primitive" /\ pos = "Root"
           /\ bres' # Ok) => current' = None
       /\ (current = None) =>
            /\ current' = None
            /\ (bop' \in {"seq_begin", "map_begin", "seq_end", "map_end", "primitive"}) =>
                /\ bres' = ErrInvalidSerializer
                /\ calls' = calls]_vars

\* C20 witness: the foreign serialize_seq failed, and the primitive that
\* followed was rejected without a second foreign call
C20_Witness ==
    /\ current = None
    /\ bop = "primitive"
    /\ bres = ErrInvalidSerializer
    /\ Len(calls) = 1
    /\ calls[1].call = "serialize_seq"
    /\ ~calls[1].ok

====
